---- MODULE Spec2Model ----
\* Verification model of the ReCall graph pipeline: the background script's
\* processPageData merge (read graphData, fold one page record in, write it
\* back), the resetBrowsingData handler, the zustand graph store with its
\* search, the graph view's layout hook (useGraphData) with its layout cache,
\* and PageClassifier.rankBrowsingData.
\*
\* Strings are sequences of one-character strings so that toLowerCase and
\* length are computed, not assumed.  Ids built from Math.random() are
\* modelled as fresh values <<kind, n>> (n a global counter); ids built from
\* Date.now() alone carry the clock value.
EXTENDS Integers, Sequences, FiniteSets, TLC

VARIABLES
    persisted,      \* chrome.storage.local "graphData": <<>> (absent) or <<graph>>
    graphDataCache, \* chrome.storage.local "graphDataCache": <<>> or <<meta>>
    now,            \* Date.now()
    nextId,         \* source of the random id suffixes
    inflight,       \* merges whose storage.get callback ran and whose storage.set has not landed
    store,          \* the zustand store's in-memory GraphData
    chromeAvailable,\* typeof chrome !== "undefined" && chrome.storage
    merges,         \* number of merges started (bounded)
    storeOps,       \* number of store mutations (bounded)
    lastOp,         \* history: the operation that completed last (clock ticks aside)
    lastMerge,      \* history: <<>> or <<[data, before, prev]>> of the merge written last
    written,        \* history: urls whose merge has been written since the last reset
    preReset,       \* history: node and edge keys persisted when a reset completed
    view,           \* the graph view: useGraphData's state and the module's layoutStorage
    call,           \* history: <<>> or <<the last call of a store or library function>>
    failed,         \* history: urls whose merge lost its storage.set since the last reset
    background,     \* the background script: userPreferences, geminiApiKey, reads asked for, last answer
    panel           \* the conversation panel: messages, isLoading, error, the send in progress

vars == <<persisted, graphDataCache, now, nextId, inflight, store,
          chromeAvailable, merges, storeOps, lastOp, lastMerge, written,
          preReset, view, call, failed, background, panel>>

-----------------------------------------------------------------------------
\* Bounds

MaxMerges == 3
MaxClock == 1
MaxInflight == 2
MaxConcMerges == 2
MaxStoreMerges == 2
MaxStoreOps == 1
MaxEnvOps == 3
MaxSearchMerges == 2
MaxFaultMerges == 2
MaxFaultOps == 2
MaxRankResults == 2
MaxRankIndex == 4
MaxSeedIdLen == 2
MaxViewMerges == 2
MaxPendingLoads == 1
MaxListMerges == 3
MaxLayoutMerges == 3
MaxRefreshMerges == 2
MaxRequested == 2
MaxTrackMessages == 2
MaxSends == 2
MaxChunks == 2

-----------------------------------------------------------------------------
\* Strings

UpperChars == <<"A","B","C","D","E","F","G","H","I","J","K","L","M",
                "N","O","P","Q","R","S","T","U","V","W","X","Y","Z">>
LowerChars == <<"a","b","c","d","e","f","g","h","i","j","k","l","m",
                "n","o","p","q","r","s","t","u","v","w","x","y","z">>

LowerChar(c) ==
    IF \E i \in 1..26 : UpperChars[i] = c
    THEN LowerChars[CHOOSE i \in 1..26 : UpperChars[i] = c]
    ELSE c

\* String.prototype.toLowerCase
toLowerCase(s) == [i \in 1..Len(s) |-> LowerChar(s[i])]

\* String.prototype.trim, for the space character
RECURSIVE trimStart(_)
trimStart(s) == IF s # <<>> /\ Head(s) = " " THEN trimStart(Tail(s)) ELSE s
RECURSIVE trimEnd(_)
trimEnd(s) ==
    IF s # <<>> /\ s[Len(s)] = " " THEN trimEnd(SubSeq(s, 1, Len(s) - 1)) ELSE s
trim(s) == trimEnd(trimStart(s))

Range(xs) == {xs[i] : i \in 1..Len(xs)}

-----------------------------------------------------------------------------
\* Data model

Undefined == <<>>

initialGraphData ==
    [websites |-> <<>>, keywords |-> <<>>, mentions |-> <<>>,
     websiteToKeywordEdges |-> <<>>, websiteToMentionEdges |-> <<>>]

TestKeywordText == <<"T","e","s","t"," ","K","e","y","w","o","r","d">>

\* result.graphData || { websites: [], ... }
GraphOrEmpty(p) == IF p = <<>> THEN initialGraphData ELSE p[1]

-----------------------------------------------------------------------------
\* processPageData: the body of the storage.get callback, as a function from
\* the graph read, the page record, the clock and the id source to the graph
\* handed to storage.set.

\* graphData.websites.findIndex(website => website.url === data.url); 0 for -1
findWebsiteIndex(websites, url) ==
    IF \E i \in 1..Len(websites) : websites[i].url = url
    THEN CHOOSE i \in 1..Len(websites) :
            /\ websites[i].url = url
            /\ \A j \in 1..(i - 1) : websites[j].url # url
    ELSE 0

\* keywordPositions as it would be if the positions of the removed keywords
\* were not carried over
keywordPositionsDropped(existingKeywords, normalizedText) == Undefined

\* keywordPositions[normalizedText] after the forEach over existingKeywords
keywordPositions(existingKeywords, normalizedText) ==
    LET hits == {i \in 1..Len(existingKeywords) :
                    toLowerCase(existingKeywords[i].text) = normalizedText}
    IN IF hits = {} THEN Undefined
       ELSE existingKeywords[CHOOSE i \in hits : \A j \in hits : j <= i].position

\* the find as it would be if the stored text were compared without lowering it
findKeywordIndexCaseSensitive(keywords, normalizedText) ==
    IF \E i \in 1..Len(keywords) : keywords[i].text = normalizedText
    THEN CHOOSE i \in 1..Len(keywords) :
            /\ keywords[i].text = normalizedText
            /\ \A j \in 1..(i - 1) : keywords[j].text # normalizedText
    ELSE 0

\* graphData.keywords.find(k => k.text.toLowerCase() === normalizedText); 0 if none
findKeywordIndex(keywords, normalizedText) ==
    IF \E i \in 1..Len(keywords) : toLowerCase(keywords[i].text) = normalizedText
    THEN CHOOSE i \in 1..Len(keywords) :
            /\ toLowerCase(keywords[i].text) = normalizedText
            /\ \A j \in 1..(i - 1) : toLowerCase(keywords[j].text) # normalizedText
    ELSE 0

\* !keywordText || keywordText.length < 3
skipKeyword(keywordText) == keywordText = <<>> \/ Len(keywordText) < 3

\* the "for (const keywordText of data.keywords)" loop; acc carries
\* graphData.keywords, graphData.websiteToKeywordEdges and the id source
RECURSIVE processKeywords(_, _, _, _)
processKeywords(list, acc, websiteId, existingKeywords) ==
    IF list = <<>> THEN acc
    ELSE
      LET keywordText == Head(list)
          normalizedText == toLowerCase(keywordText)
          found == findKeywordIndex(acc.keywords, normalizedText)
          keywordId == IF found > 0 THEN acc.keywords[found].id
                       ELSE <<"keyword", acc.n>>
          keywords2 ==
              IF found > 0 THEN acc.keywords
              ELSE Append(acc.keywords,
                          [id |-> keywordId,
                           text |-> keywordText,
                           sourceWebsiteId |-> Undefined,
                           position |-> keywordPositions(existingKeywords,
                                                         normalizedText)])
          edges2 == Append(acc.edges,
                           [id |-> <<"edge", acc.n>>,
                            source |-> websiteId,
                            target |-> keywordId])
      IN IF skipKeyword(keywordText)
         THEN processKeywords(Tail(list), acc, websiteId, existingKeywords)
         ELSE processKeywords(Tail(list),
                              [keywords |-> keywords2, edges |-> edges2,
                               n |-> acc.n + 1],
                              websiteId, existingKeywords)

\* !mentionData.text || mentionData.text.length < 2 || !mentionData.context
skipMention(mentionData) ==
    \/ mentionData.text = <<>>
    \/ Len(mentionData.text) < 2
    \/ mentionData.context = <<>>

\* existingMentions.find(m => m.text.toLowerCase() === text.toLowerCase())?.position
existingMentionPosition(existingMentions, text) ==
    IF \E i \in 1..Len(existingMentions) :
          toLowerCase(existingMentions[i].text) = toLowerCase(text)
    THEN existingMentions[CHOOSE i \in 1..Len(existingMentions) :
            /\ toLowerCase(existingMentions[i].text) = toLowerCase(text)
            /\ \A j \in 1..(i - 1) :
                  toLowerCase(existingMentions[j].text) # toLowerCase(text)].position
    ELSE Undefined

\* the loop as it would be if it pushed no website-to-mention edge
RECURSIVE processMentionsNoEdge(_, _, _, _)
processMentionsNoEdge(list, acc, websiteId, existingMentions) ==
    IF list = <<>> THEN acc
    ELSE
      LET mentionData == Head(list)
          mentions2 == Append(acc.mentions,
                              [id |-> <<"mention", acc.n>>,
                               text |-> mentionData.text,
                               context |-> mentionData.context,
                               sourceWebsiteId |-> websiteId,
                               position |-> Undefined])
      IN IF skipMention(mentionData)
         THEN processMentionsNoEdge(Tail(list), acc, websiteId, existingMentions)
         ELSE processMentionsNoEdge(Tail(list),
                                    [mentions |-> mentions2, edges |-> acc.edges,
                                     n |-> acc.n + 1],
                                    websiteId, existingMentions)

\* the "for (const mentionData of data.mentions)" loop
RECURSIVE processMentions(_, _, _, _)
processMentions(list, acc, websiteId, existingMentions) ==
    IF list = <<>> THEN acc
    ELSE
      LET mentionData == Head(list)
          mentionId == <<"mention", acc.n>>
          mentions2 == Append(acc.mentions,
                              [id |-> mentionId,
                               text |-> mentionData.text,
                               context |-> mentionData.context,
                               sourceWebsiteId |-> websiteId,
                               position |-> existingMentionPosition(
                                               existingMentions, mentionData.text)])
          edges2 == Append(acc.edges,
                           [id |-> <<"edge", acc.n>>,
                            source |-> websiteId,
                            target |-> mentionId])
      IN IF skipMention(mentionData)
         THEN processMentions(Tail(list), acc, websiteId, existingMentions)
         ELSE processMentions(Tail(list),
                              [mentions |-> mentions2, edges |-> edges2,
                               n |-> acc.n + 1],
                              websiteId, existingMentions)

\* "ensure at least one node and edge for testing"
testKeywordFallback(g, t) ==
    IF /\ Len(g.websites) > 0
       /\ Len(g.websiteToKeywordEdges) = 0
       /\ Len(g.keywords) = 0
    THEN [g EXCEPT
            !.keywords = Append(@, [id |-> <<"keyword-test", t>>,
                                    text |-> TestKeywordText,
                                    sourceWebsiteId |-> g.websites[1].id,
                                    position |-> Undefined]),
            !.websiteToKeywordEdges =
                Append(@, [id |-> <<"edge-test", t>>,
                           source |-> g.websites[1].id,
                           target |-> <<"keyword-test", t>>])]
    ELSE g

\* the update as it would be if the node were rebuilt from the record, the way
\* mention nodes are
updateExistingWebsiteRebuilt(website, data, t) ==
    [id |-> website.id, url |-> data.url, title |-> data.title,
     favicon |-> data.favicon, visitedAt |-> t, lastPosition |-> Undefined]

\* "update existing website": title, favicon and visitedAt are assigned
updateExistingWebsite(website, data, t) ==
    [website EXCEPT !.title = data.title,
                    !.favicon = data.favicon,
                    !.visitedAt = t]

\* Result: [graph |-> the graph passed to storage.set, websiteId, n |-> id source after]
processPageData(graphData, data, t, n0) ==
    LET existingWebsiteIndex == findWebsiteIndex(graphData.websites, data.url)
        websiteId == IF existingWebsiteIndex > 0
                     THEN graphData.websites[existingWebsiteIndex].id
                     ELSE <<"website", n0>>
        n1 == IF existingWebsiteIndex > 0 THEN n0 ELSE n0 + 1
        websites ==
            IF existingWebsiteIndex > 0
            THEN [graphData.websites EXCEPT
                    ![existingWebsiteIndex] = updateExistingWebsite(@, data, t)]
            ELSE Append(graphData.websites,
                        [id |-> websiteId, url |-> data.url,
                         title |-> data.title, favicon |-> data.favicon,
                         visitedAt |-> t, lastPosition |-> Undefined])
        existingKeywords ==
            SelectSeq(graphData.keywords,
                      LAMBDA k : k.sourceWebsiteId = websiteId)
        kw == processKeywords(
                data.keywords,
                [keywords |-> SelectSeq(graphData.keywords,
                                LAMBDA k : k.sourceWebsiteId # websiteId),
                 edges |-> SelectSeq(graphData.websiteToKeywordEdges,
                                LAMBDA e : e.source # websiteId),
                 n |-> n1],
                websiteId, existingKeywords)
        existingMentions ==
            SelectSeq(graphData.mentions,
                      LAMBDA m : m.sourceWebsiteId = websiteId)
        mn == processMentions(
                data.mentions,
                [mentions |-> SelectSeq(graphData.mentions,
                                LAMBDA m : m.sourceWebsiteId # websiteId),
                 edges |-> SelectSeq(graphData.websiteToMentionEdges,
                                LAMBDA e : e.source # websiteId),
                 n |-> kw.n],
                websiteId, existingMentions)
        merged == [websites |-> websites,
                   keywords |-> kw.keywords,
                   mentions |-> mn.mentions,
                   websiteToKeywordEdges |-> kw.edges,
                   websiteToMentionEdges |-> mn.edges]
    IN [graph |-> testKeywordFallback(merged, t),
        websiteId |-> websiteId,
        n |-> mn.n]

\* graphDataCache = { timestamp: Date.now(), nodeCount }
cacheMeta(g, t) ==
    [timestamp |-> t,
     nodeCount |-> Len(g.websites) + Len(g.keywords) + Len(g.mentions)]

-----------------------------------------------------------------------------
\* Inputs

U1 == <<"u","1">>
U2 == <<"u","2">>
Urls == {U1, U2}

T1 == <<"t","1">>
T2 == <<"S","h","a","d","c","n">>

Favicon == <<"f">>

kwAbc == <<"a","b","c">>
kwABC == <<"A","B","C">>
kwSpAbc == <<" ","a","b","c">>
kwAb == <<"a","b">>
kwXyz == <<"x","y","z">>
kwTest == <<"t","e","s","t"," ","k","e","y","w","o","r","d">>

mReact == [text |-> <<"R","e","a","c","t">>, context |-> <<"c","1">>]
mreact == [text |-> <<"r","e","a","c","t">>, context |-> <<"c","2">>]
mVue == [text |-> <<"V","u","e">>, context |-> <<"c","1">>]
mShort == [text |-> <<"R">>, context |-> <<"c","1">>]

Payloads ==
    { [keywords |-> <<>>,             mentions |-> <<>>,            title |-> T1],
      [keywords |-> <<kwAb>>,         mentions |-> <<mShort>>,      title |-> T2],
      [keywords |-> <<kwAbc>>,        mentions |-> <<mReact>>,      title |-> T1],
      [keywords |-> <<kwABC, kwXyz>>, mentions |-> <<mreact, mVue>>, title |-> T2],
      [keywords |-> <<kwSpAbc>>,      mentions |-> <<>>,            title |-> T1],
      [keywords |-> <<kwTest>>,       mentions |-> <<>>,            title |-> T1] }

PageData(url, p) ==
    [url |-> url, title |-> p.title, favicon |-> Favicon,
     keywords |-> p.keywords, mentions |-> p.mentions]

PageRecords == {PageData(u, p) : u \in Urls, p \in Payloads}

P10 == <<10, 20>>
P30 == <<30, 40>>
Positions == {P10, P30}

-----------------------------------------------------------------------------
\* The graph view (useGraphData)

Digits == <<"0","1","2","3","4","5","6","7","8","9">>

\* String.prototype.charCodeAt for "-", the digits and the lower-case letters
charCodeAt(c) ==
    IF c = "-" THEN 45
    ELSE IF \E i \in 1..10 : Digits[i] = c
         THEN 47 + (CHOOSE i \in 1..10 : Digits[i] = c)
         ELSE 96 + (CHOOSE i \in 1..26 : LowerChars[i] = c)

\* hash = (hash << 5) - hash + charCode; hash |= 0, over the characters of
\* the seed.  The 32-bit hash is kept as two 16-bit halves, so that no
\* intermediate value leaves the 32-bit range.  hash is bound to its value
\* (h) before the next round uses it.
RECURSIVE hashOf(_, _)
hashOf(seed, hash) ==
    IF seed = <<>> THEN hash
    ELSE CHOOSE next \in
            {hashOf(Tail(seed),
                    [hi |-> (31 * h.hi
                              + ((31 * h.lo + charCodeAt(Head(seed))) \div 65536))
                            % 65536,
                     lo |-> (31 * h.lo + charCodeAt(Head(seed))) % 65536]) :
                h \in {hash}} : TRUE

\* Math.abs of the signed 32-bit value, as two halves (hi = 32768, lo = 0
\* is 2^31, the absolute value of the smallest int32)
absHash(hash) ==
    IF hash.hi < 32768 THEN hash
    ELSE IF hash.lo = 0 THEN [hi |-> 65536 - hash.hi, lo |-> 0]
    ELSE [hi |-> 65535 - hash.hi, lo |-> 65536 - hash.lo]

\* value % m of a value given as two halves, m > 0
modOf(value, m) == ((value.hi % m) * (65536 % m) + value.lo) % m

NaN == [nan |-> TRUE, tenths |-> 0]

\* generateDeterministicPosition(seed, maxValue), in tenths: margin is
\* maxValue * 0.1 and the result (Math.abs(hash) % (maxValue - 2 * margin))
\* + margin; a remainder by 0 is NaN.  Exact arithmetic, no rounding.
generateDeterministicPosition(seed, maxValue) ==
    LET margin10 == maxValue
        range10 == 10 * maxValue - 2 * margin10
    IN IF range10 = 0 THEN NaN
       ELSE CHOOSE position \in
               {[nan |-> FALSE,
                 tenths |-> ((10 * modOf(absHash(hash), range10)) % range10)
                              + margin10] :
                   hash \in {hashOf(seed, [hi |-> 0, lo |-> 0])}} : TRUE

\* seeds `${kind}-${id}-${axis}`
SeedIds ==
    UNION {[1..n -> {"1", "a", "z"}] : n \in 1..MaxSeedIdLen}

Seeds ==
    {kind \o <<"-">> \o id \o <<"-", axis>> :
        kind \in {<<"w","e","b","s","i","t","e">>, <<"k","e","y","w","o","r","d">>},
        id \in SeedIds, axis \in {"x", "y"}}

\* useResizeObserver: { width: 0, height: 0 } until the first measurement
Dimensions == {0, 1, 7, 600, 800, 1365}

\* a call of generateDeterministicPosition that has not run yet
PositionSeedCalls ==
    {<<[op |-> "generateDeterministicPosition", seed |-> seed,
        maxValue |-> maxValue, result |-> <<>>]>> :
        seed \in Seeds, maxValue \in Dimensions}

GenerateDeterministicPosition ==
    /\ call # <<>>
    /\ call[1].op = "generateDeterministicPosition"
    /\ call[1].result = <<>>
    /\ call' = <<[call[1] EXCEPT !.result =
            <<generateDeterministicPosition(call[1].seed, call[1].maxValue)>>]>>
    /\ lastOp' = "generateDeterministicPosition"
    /\ UNCHANGED <<persisted, graphDataCache, now, nextId, inflight, store,
                   chromeAvailable, merges, storeOps, lastMerge, written,
                   preReset, view, failed, background, panel>>

\* the decimal digits of a natural number
RECURSIVE digitsOf(_)
digitsOf(n) ==
    IF n < 10 THEN <<Digits[n + 1]>>
    ELSE Append(digitsOf(n \div 10), Digits[(n % 10) + 1])

\* the text of a node id: `${kind}-${...}`
idString(id) ==
    (CASE id[1] = "website" -> <<"w","e","b","s","i","t","e">>
       [] id[1] = "keyword" -> <<"k","e","y","w","o","r","d">>
       [] id[1] = "keyword-test" ->
              <<"k","e","y","w","o","r","d","-","t","e","s","t">>
       [] OTHER -> <<"i","d">>)
    \o <<"-">> \o digitsOf(id[2])

\* createWebsiteNode(website, dimensions)
createWebsiteNode(website, dimensions) ==
    [id |-> website.id, type |-> "website",
     position |->
        <<generateDeterministicPosition(
              <<"w","e","b","s","i","t","e","-">> \o idString(website.id)
                  \o <<"-","x">>, dimensions[1]),
          generateDeterministicPosition(
              <<"w","e","b","s","i","t","e","-">> \o idString(website.id)
                  \o <<"-","y">>, dimensions[2])>>]

\* createKeywordNode(keyword, dimensions)
createKeywordNode(keyword, dimensions) ==
    [id |-> keyword.id, type |-> "keyword",
     position |->
        <<generateDeterministicPosition(
              <<"k","e","y","w","o","r","d","-">> \o idString(keyword.id)
                  \o <<"-","x">>, dimensions[1]),
          generateDeterministicPosition(
              <<"k","e","y","w","o","r","d","-">> \o idString(keyword.id)
                  \o <<"-","y">>, dimensions[2])>>]

\* processGraphData: flowNodes, from graphData.websites and graphData.keywords
flowNodes(graphData, dimensions) ==
    [i \in 1..Len(graphData.websites) |->
        createWebsiteNode(graphData.websites[i], dimensions)]
    \o [i \in 1..Len(graphData.keywords) |->
        createKeywordNode(graphData.keywords[i], dimensions)]

\* processGraphData: flowEdges, from graphData.websiteToKeywordEdges
flowEdges(graphData) ==
    [i \in 1..Len(graphData.websiteToKeywordEdges) |->
        [id |-> graphData.websiteToKeywordEdges[i].id,
         source |-> graphData.websiteToKeywordEdges[i].source,
         target |-> graphData.websiteToKeywordEdges[i].target]]

\* d3.forceLink(simLinks).id(d => d.id) resolves every link end to a
\* simulation node and throws "node not found" for an end that names none
linksResolve(nodes, edges) ==
    \A i \in 1..Len(edges) :
        /\ \E j \in 1..Len(nodes) : nodes[j].id = edges[i].source
        /\ \E j \in 1..Len(nodes) : nodes[j].id = edges[i].target

\* layoutedNodes: each node with the position the simulation gave it after
\* its 300 ticks; the simulation belongs to d3, so the position is kept as
\* the start position it was computed from
layoutedNodes(nodes) ==
    [i \in 1..Len(nodes) |->
        [nodes[i] EXCEPT !.position = [ticks |-> 300, start |-> nodes[i].position]]]

\* what a step of the view did: history, read by the properties only
NoProbe ==
    [ranSimulation |-> FALSE, readStorage |-> FALSE, layoutStorage |-> {},
     snapshot |-> <<>>, persisted |-> <<>>, pending |-> <<>>]

Probe(v, ranSimulation, readStorage, snapshot) ==
    [ranSimulation |-> ranSimulation, readStorage |-> readStorage,
     layoutStorage |-> v.layoutStorage, snapshot |-> snapshot,
     persisted |-> persisted, pending |-> v.pending]

\* useGraphData before the component mounts; layoutStorage = {}
initialView ==
    [mounted |-> FALSE, cacheKey |-> 0, layoutStorage |-> {},
     nodes |-> <<>>, edges |-> <<>>, isLoading |-> TRUE, error |-> FALSE,
     preferences |-> <<>>, dimensions |-> <<0, 0>>,
     effect |-> FALSE, prefsGet |-> FALSE, pending |-> <<>>,
     step |-> "none", probe |-> NoProbe]

\* layoutStorage[`history-graph-${cacheKey}`]
cachedLayout(layoutStorage, cacheKey) ==
    {e \in layoutStorage : e.key = cacheKey}

\* cachedLayout && cachedLayout.nodes.length > 0
cacheHit(layoutStorage, cacheKey) ==
    \E e \in cachedLayout(layoutStorage, cacheKey) : Len(e.nodes) > 0

\* a variant of emptyLoad that leaves the node and edge lists alone
emptyLoadKeepingLists(v) ==
    [v EXCEPT !.isLoading = FALSE]

\* loadHistory, no chrome.storage or no website in graphData:
\* setNodes([]), setEdges([]), setIsLoading(false)
emptyLoad(v) ==
    [v EXCEPT !.nodes = <<>>, !.edges = <<>>, !.isLoading = FALSE]

\* loadHistory: chrome.storage.local.get("graphData", callback); the callback
\* closes over the cacheKey and the dimensions of this render
requestGraphData(v) ==
    [v EXCEPT !.pending =
        Append(@, [cacheKey |-> v.cacheKey, dimensions |-> v.dimensions])]

\* a variant of cachedLoad without the return that ends loadHistory
cachedLoadWithoutReturn(v, e) ==
    [requestGraphData([v EXCEPT !.nodes = e.nodes, !.edges = e.edges,
                                 !.isLoading = FALSE])
        EXCEPT !.step = "hit", !.probe = Probe(v, FALSE, TRUE, <<>>)]

\* loadHistory on a cache hit: setNodes(cachedLayout.nodes),
\* setEdges(cachedLayout.edges), setIsLoading(false), return
cachedLoad(v, e) ==
    [v EXCEPT !.nodes = e.nodes, !.edges = e.edges, !.isLoading = FALSE,
              !.step = "hit", !.probe = Probe(v, FALSE, FALSE, <<>>)]

\* applyForceLayout as it would be if the catch of processGraphData emptied
\* the displayed lists
applyForceLayoutClearing(v, cacheKey, nodes, edges, snapshot) ==
    IF Len(nodes) = 0
    THEN [emptyLoad(v) EXCEPT !.step = "empty",
                              !.probe = Probe(v, FALSE, TRUE, <<snapshot>>)]
    ELSE IF ~linksResolve(nodes, edges)
    THEN [emptyLoad(v) EXCEPT !.step = "failed",
                              !.probe = Probe(v, TRUE, TRUE, <<snapshot>>)]
    ELSE [v EXCEPT !.layoutStorage =
                      (@ \ cachedLayout(@, cacheKey))
                      \cup {[key |-> cacheKey, nodes |-> layoutedNodes(nodes),
                              edges |-> edges, snapshot |-> snapshot]},
                   !.nodes = layoutedNodes(nodes),
                   !.edges = edges,
                   !.isLoading = FALSE,
                   !.step = "computed",
                   !.probe = Probe(v, TRUE, TRUE, <<snapshot>>)]

\* applyForceLayout(nodes, edges, dimensions) under the closure's cacheKey;
\* an exception of d3 is caught by processGraphData, which only ends loading
applyForceLayout(v, cacheKey, nodes, edges, snapshot) ==
    IF Len(nodes) = 0
    THEN [emptyLoad(v) EXCEPT !.step = "empty",
                              !.probe = Probe(v, FALSE, TRUE, <<snapshot>>)]
    ELSE IF ~linksResolve(nodes, edges)
    THEN [v EXCEPT !.isLoading = FALSE, !.step = "failed",
                   !.probe = Probe(v, TRUE, TRUE, <<snapshot>>)]
    ELSE [v EXCEPT !.layoutStorage =
                      (@ \ cachedLayout(@, cacheKey))
                      \cup {[key |-> cacheKey, nodes |-> layoutedNodes(nodes),
                              edges |-> edges, snapshot |-> snapshot]},
                   !.nodes = layoutedNodes(nodes),
                   !.edges = edges,
                   !.isLoading = FALSE,
                   !.step = "computed",
                   !.probe = Probe(v, TRUE, TRUE, <<snapshot>>)]

\* the callback of loadHistory's storage.get: processGraphData when graphData
\* has a website, empty lists otherwise
loadedGraphData(v, closure, result) ==
    IF result # <<>> /\ Len(result[1].websites) > 0
    THEN CHOOSE loaded \in
            {applyForceLayout(v, closure.cacheKey, nodes, edges, result[1]) :
                nodes \in {flowNodes(result[1], closure.dimensions)},
                edges \in {flowEdges(result[1])}} : TRUE
    ELSE [emptyLoad(v) EXCEPT !.step = "empty",
                              !.probe = Probe(v, FALSE, TRUE, result)]

-----------------------------------------------------------------------------
\* Background script: tracking preferences

\* String.prototype.startsWith
startsWith(s, prefix) ==
    Len(prefix) <= Len(s) /\ SubSeq(s, 1, Len(prefix)) = prefix

\* String.prototype.includes
includes(s, sub) ==
    \E i \in 0..(Len(s) - Len(sub)) : SubSeq(s, i + 1, i + Len(sub)) = sub

\* extractDomain: new URL(url).hostname for urls of the form scheme://host/path
\* (no port, no user info), "" when new URL throws for want of a scheme
extractDomain(url) ==
    LET marks == {i \in 1..(Len(url) - 2) : SubSeq(url, i, i + 2) = <<":","/","/">>}
    IN IF marks = {} THEN <<>>
       ELSE LET from == (CHOOSE i \in marks : \A j \in marks : i <= j) + 3
                rest == SubSeq(url, from, Len(url))
                slashes == {i \in 1..Len(rest) : rest[i] = "/"}
            IN IF slashes = {} THEN rest
               ELSE SubSeq(rest, 1, (CHOOSE i \in slashes : \A j \in slashes : i <= j) - 1)

\* the value the promise of shouldTrackUrl(url) resolves to
shouldTrackUrl(userPreferences, url) ==
    LET domain == extractDomain(url)
    IN /\ userPreferences.enabled
       /\ domain # <<>>
       /\ \A i \in 1..Len(userPreferences.excludedDomains) :
             ~(\/ startsWith(url, userPreferences.excludedDomains[i])
               \/ includes(domain, userPreferences.excludedDomains[i]))
       /\ Len(userPreferences.trackedDomains) > 0 =>
             \E i \in 1..Len(userPreferences.trackedDomains) :
                 includes(domain, userPreferences.trackedDomains[i])

\* userPreferences.preferences && geminiApiKey
canClassify(b) ==
    b.userPreferences.preferences # <<>> /\ b.geminiApiKey # <<>>

ContentPreferences == <<"a","i">>
GeminiApiKey == <<"k">>
Localhost == <<"l","o","c","a","l","h","o","s","t">>
DomainA == <<"a",".","i","o">>
DomainB == <<"b",".","i","o">>
UrlA == <<"h","t","t","p","s",":","/","/","a",".","i","o","/">>
UrlB == <<"h","t","t","p","s",":","/","/","b",".","i","o","/","x">>

\* a background script with content preferences and an api key, tracking
\* every domain that is not excluded
configuredBackground ==
    [userPreferences |-> [trackedDomains |-> <<>>,
                          excludedDomains |-> <<Localhost>>,
                          enabled |-> TRUE,
                          preferences |-> ContentPreferences],
     geminiApiKey |-> GeminiApiKey,
     requested |-> <<>>,
     response |-> <<>>]

-----------------------------------------------------------------------------
\* Conversation panel (ConversationPanel)

\* useState initial values; send is where handleSendMessage stands: "idle",
\* "context" (awaiting the browsing context), "fetch" (awaiting the response
\* of streamGenerateContent) or "reading" (in the reader.read() loop)
initialPanel ==
    [messages |-> <<>>, isLoading |-> FALSE, error |-> FALSE,
     geminiApiKey |-> GeminiApiKey, streamController |-> FALSE,
     send |-> "idle", messageId |-> <<>>, completeResponse |-> <<>>,
     sends |-> 0]

\* setMessages(prev => prev.map(msg => msg.id === messageId ? {...msg, ...} : msg))
\* with the fields content and, when given, isStreaming
mapMessage(messages, messageId, content, isStreaming) ==
    [i \in 1..Len(messages) |->
        IF messages[i].id = messageId
        THEN [messages[i] EXCEPT
                !.content = content,
                !.isStreaming = IF isStreaming = <<>> THEN @ ELSE isStreaming[1]]
        ELSE messages[i]]

\* streamGeminiResponse: catch (AbortError returns "", anything else sets the
\* error), finally setStreamController(null); then handleSendMessage's finally,
\* setIsLoading(false)
streamFailed(p, aborted) ==
    [p EXCEPT !.error = @ \/ ~aborted,
              !.streamController = FALSE,
              !.isLoading = FALSE,
              !.send = "idle"]

-----------------------------------------------------------------------------
\* Initial state: nothing stored, empty store, extension context

Init ==
    /\ persisted = <<>>
    /\ graphDataCache = <<>>
    /\ now = 0
    /\ nextId = 1
    /\ inflight = <<>>
    /\ store = initialGraphData
    /\ chromeAvailable = TRUE
    /\ merges = 0
    /\ storeOps = 0
    /\ lastOp = "init"
    /\ lastMerge = <<>>
    /\ written = {}
    /\ preReset = {}
    /\ view = initialView
    /\ call = <<>>
    /\ failed = {}
    /\ background = configuredBackground
    /\ panel = initialPanel

\* Identity of the nodes and edges of a graph, for the history of resets
NodeKeys(g) ==
    {<<"w", w.id>> : w \in Range(g.websites)}
    \cup {<<"k", k.id, k.sourceWebsiteId>> : k \in Range(g.keywords)}
    \cup {<<"m", m.id>> : m \in Range(g.mentions)}
    \cup {<<"e", e.id, e.source, e.target>> :
            e \in Range(g.websiteToKeywordEdges) \cup Range(g.websiteToMentionEdges)}

\* stale: the graph the merge read was no longer the persisted one when it wrote
MergeHistory(data, before) ==
    <<[data |-> data, before |-> before,
       stale |-> before # GraphOrEmpty(persisted),
       prev |-> IF lastMerge = <<>> THEN <<>> ELSE <<lastMerge[1].data>>]>>

-----------------------------------------------------------------------------
\* Vocabulary of the properties

G == GraphOrEmpty(persisted)

WebsiteIds(g) == {w.id : w \in Range(g.websites)}
KeywordIds(g) == {k.id : k \in Range(g.keywords)}
MentionIds(g) == {m.id : m \in Range(g.mentions)}

WebsitesWithUrl(g, url) == {i \in 1..Len(g.websites) : g.websites[i].url = url}

\* ids of the WebsiteNodes with this url
IdsOfUrl(g, url) == {g.websites[i].id : i \in WebsitesWithUrl(g, url)}

\* indexes of the KeywordNodes whose text equals text up to letter case
KeywordsWithText(g, text) ==
    {i \in 1..Len(g.keywords) : toLowerCase(g.keywords[i].text) = toLowerCase(text)}

AcceptedKeywords(data) == {t \in Range(data.keywords) : ~skipKeyword(t)}
AcceptedMentions(data) == {m \in Range(data.mentions) : ~skipMention(m)}

KeywordEdgesFrom(g, id) == {e \in Range(g.websiteToKeywordEdges) : e.source = id}
MentionEdgesFrom(g, id) == {e \in Range(g.websiteToMentionEdges) : e.source = id}

LastData == lastMerge[1].data
LastBefore == lastMerge[1].before
\* the last two writes were merges, with nothing but clock ticks in between
TwoMerges == lastMerge # <<>> /\ lastMerge[1].prev # <<>>
PrevData == lastMerge[1].prev[1]

-----------------------------------------------------------------------------
\* Background script

\* Date.now() advances
Tick ==
    /\ now < MaxClock
    /\ now' = now + 1
    /\ UNCHANGED <<persisted, graphDataCache, nextId, inflight, store,
                   chromeAvailable, merges, storeOps, lastOp, lastMerge,
                   written, preReset, view, call, failed, background, panel>>

\* processPageData for a record that passed the content filter, with nothing
\* else touching storage between its storage.get callback and the completion
\* of its storage.set (which succeeds, so graphDataCache is written too)
MergePageData(data) ==
    /\ chromeAvailable
    /\ merges < MaxMerges
    /\ inflight = <<>>
    /\ LET before == GraphOrEmpty(persisted)
           r == processPageData(before, data, now, nextId)
       IN /\ persisted' = <<r.graph>>
          /\ graphDataCache' = <<cacheMeta(r.graph, now)>>
          /\ nextId' = r.n
          /\ lastMerge' = MergeHistory(data, before)
    /\ merges' = merges + 1
    /\ written' = written \cup {data.url}
    /\ lastOp' = "merge"
    /\ UNCHANGED <<now, inflight, store, chromeAvailable, storeOps, preReset,
                   view, call, failed, background, panel>>

\* processPageData, storage.get callback: read graphData, compute the new
\* graph, call storage.set
MergeRead(data) ==
    /\ chromeAvailable
    /\ merges < MaxMerges
    /\ Len(inflight) < MaxInflight
    /\ LET before == GraphOrEmpty(persisted)
           r == processPageData(before, data, now, nextId)
       IN /\ inflight' = Append(inflight,
                                [data |-> data, before |-> before,
                                 graph |-> r.graph])
          /\ nextId' = r.n
    /\ merges' = merges + 1
    /\ UNCHANGED <<persisted, graphDataCache, now, store, chromeAvailable,
                   storeOps, lastOp, lastMerge, written, preReset, view, call,
                   failed, background, panel>>

\* processPageData, storage.set lands and its callback writes graphDataCache
MergeWrite(i) ==
    /\ i \in 1..Len(inflight)
    /\ persisted' = <<inflight[i].graph>>
    /\ graphDataCache' = <<cacheMeta(inflight[i].graph, now)>>
    /\ inflight' = SubSeq(inflight, 1, i - 1) \o SubSeq(inflight, i + 1, Len(inflight))
    /\ lastMerge' = MergeHistory(inflight[i].data, inflight[i].before)
    /\ written' = written \cup {inflight[i].data.url}
    /\ lastOp' = "merge"
    /\ UNCHANGED <<now, nextId, store, chromeAvailable, merges, storeOps,
                   preReset, view, call, failed, background, panel>>

\* processPageData whose storage.set({ graphData }) ends with
\* chrome.runtime.lastError: the error is logged, graphDataCache is not
\* written, and the merged graph, a local of the storage.get callback, is gone
MergePageDataWriteFails(data) ==
    /\ chromeAvailable
    /\ merges < MaxMerges
    /\ inflight = <<>>
    /\ nextId' = processPageData(GraphOrEmpty(persisted), data, now, nextId).n
    /\ merges' = merges + 1
    /\ failed' = failed \cup {data.url}
    /\ lastOp' = "mergeWriteFailed"
    /\ UNCHANGED <<persisted, graphDataCache, now, inflight, store,
                   chromeAvailable, storeOps, lastMerge, written, preReset,
                   view, call, background, panel>>

\* onMessage "resetBrowsingData": storage.set({ graphData: emptyGraphData })
ResetBrowsingData ==
    /\ chromeAvailable
    /\ persisted' = <<initialGraphData>>
    /\ preReset' = preReset \cup NodeKeys(GraphOrEmpty(persisted))
    /\ written' = {}
    /\ lastMerge' = <<>>
    /\ failed' = {}
    /\ lastOp' = "reset"
    /\ UNCHANGED <<graphDataCache, now, nextId, inflight, store,
                   chromeAvailable, merges, storeOps, view, call, background, panel>>

\* processPageData up to its storage.get: nothing happens without content
\* preferences and an api key, or when the classifier answers "irrelevant"
\* (relevant is the answer of isContentRelevantToUserPreferences); otherwise
\* the read of graphData is asked for
processPageDataRequest(b, data, relevant) ==
    IF canClassify(b) /\ relevant
    THEN [b EXCEPT !.requested = Append(@, data)]
    ELSE b

\* what the handlers of the background script leave alone
BackgroundFrame ==
    UNCHANGED <<persisted, graphDataCache, now, nextId, inflight, store,
                chromeAvailable, storeOps, lastMerge, written, preReset, view,
                call, failed, panel>>

\* chrome.tabs.onUpdated for a tab that completed loading data.url: the test
\* of shouldTrackUrl(tab.url) is a test of a promise, which is truthy, so the
\* page data is asked of the content script whatever it resolves to, and
\* processed when there are an api key and content preferences
tabsOnUpdated(data, relevant) ==
    /\ data.url # <<>>
    /\ Len(background.requested) < MaxRequested
    /\ background' =
          IF canClassify(background)
          THEN processPageDataRequest(background, data, relevant)
          ELSE background
    /\ merges' = merges + 1
    /\ lastOp' = "tabsOnUpdated"
    /\ BackgroundFrame

\* onMessage "savePageData" from a tab: the optional relevance filter
\* (relevant1), await processPageData(data) (relevant2 is the answer to its
\* own classification), sendResponse({ success: true })
onMessageSavePageData(data, relevant1, relevant2) ==
    /\ Len(background.requested) < MaxRequested
    /\ background' =
          IF canClassify(background) /\ ~relevant1
          THEN [background EXCEPT
                  !.response = <<[url |-> data.url, success |-> FALSE]>>]
          ELSE [processPageDataRequest(background, data, relevant2) EXCEPT
                  !.response = <<[url |-> data.url, success |-> TRUE]>>]
    /\ merges' = merges + 1
    /\ lastOp' = "savePageData"
    /\ BackgroundFrame

\* processPageData, the callback of its storage.get("graphData") and the
\* storage.set it ends with, for the read that was asked for first
storageGetCallback ==
    /\ background.requested # <<>>
    /\ LET data == Head(background.requested)
           before == GraphOrEmpty(persisted)
           r == processPageData(before, data, now, nextId)
       IN /\ persisted' = <<r.graph>>
          /\ graphDataCache' = <<cacheMeta(r.graph, now)>>
          /\ nextId' = r.n
          /\ lastMerge' = MergeHistory(data, before)
          /\ written' = written \cup {data.url}
    /\ background' = [background EXCEPT !.requested = Tail(@)]
    /\ lastOp' = "merge"
    /\ UNCHANGED <<now, inflight, store, chromeAvailable, merges, storeOps,
                   preReset, view, call, failed, panel>>

-----------------------------------------------------------------------------
\* Conversation panel: handleSendMessage and streamGeminiResponse

\* what the panel leaves alone
PanelFrame ==
    UNCHANGED <<persisted, graphDataCache, now, nextId, inflight, store,
                chromeAvailable, merges, storeOps, lastOp, lastMerge, written,
                preReset, view, call, failed, background>>

\* handleSendMessage up to its first await; the send controls are disabled
\* while isLoading
handleSendMessage(message) ==
    /\ panel.send = "idle"
    /\ panel.sends < MaxSends
    /\ trim(message) # <<>>
    /\ panel' =
          IF panel.geminiApiKey = <<>>
          THEN [panel EXCEPT !.error = TRUE, !.sends = @ + 1]
          ELSE [panel EXCEPT
                  !.error = FALSE,
                  !.messages = Append(@, [id |-> now, content |-> message,
                                          role |-> "user", isStreaming |-> FALSE]),
                  !.isLoading = TRUE,
                  !.send = "context",
                  !.sends = @ + 1]
    /\ PanelFrame

\* the browsing context is ready: streamGeminiResponse starts,
\* setStreamController(controller), fetch
contextLoaded ==
    /\ panel.send = "context"
    /\ panel' = [panel EXCEPT !.streamController = TRUE, !.send = "fetch"]
    /\ PanelFrame

\* preparing the context throws: the catch of handleSendMessage appends its
\* error message, finally setIsLoading(false)
contextThrows ==
    /\ panel.send = "context"
    /\ panel' = [panel EXCEPT
                   !.messages = Append(@, [id |-> now + 1, content |-> <<"S">>,
                                           role |-> "assistant",
                                           isStreaming |-> FALSE]),
                   !.isLoading = FALSE,
                   !.send = "idle"]
    /\ PanelFrame

\* fetch resolves: !response.ok throws; otherwise the assistant message is
\* created with isStreaming: true, and a response without a body throws
fetchResolved(ok, hasReader) ==
    /\ panel.send = "fetch"
    /\ panel' =
          IF ~ok THEN streamFailed(panel, FALSE)
          ELSE LET created ==
                     [panel EXCEPT
                        !.messages = Append(@, [id |-> now, content |-> <<>>,
                                                role |-> "assistant",
                                                isStreaming |-> TRUE]),
                        !.messageId = <<now>>,
                        !.completeResponse = <<>>]
               IN IF hasReader THEN [created EXCEPT !.send = "reading"]
                  ELSE streamFailed(created, FALSE)
    /\ PanelFrame

\* fetch rejects (network error, or AbortError)
fetchRejected(aborted) ==
    /\ panel.send = "fetch"
    /\ panel' = streamFailed(panel, aborted)
    /\ PanelFrame

\* reader.read() yields a chunk with text: completeResponse += textChunk and
\* the message's content is updated
readChunk(textChunk) ==
    /\ panel.send = "reading"
    /\ Len(panel.completeResponse) < MaxChunks
    /\ LET completeResponse == Append(panel.completeResponse, textChunk)
       IN panel' = [panel EXCEPT
                      !.completeResponse = completeResponse,
                      !.messages = mapMessage(@, panel.messageId[1],
                                              completeResponse, <<>>)]
    /\ PanelFrame

\* reader.read() yields done: the message gets isStreaming: false; finally
\* setStreamController(null); then setIsLoading(false)
readDone ==
    /\ panel.send = "reading"
    /\ panel' = [panel EXCEPT
                   !.messages = mapMessage(@, panel.messageId[1],
                                           panel.completeResponse, <<FALSE>>),
                   !.streamController = FALSE,
                   !.isLoading = FALSE,
                   !.send = "idle"]
    /\ PanelFrame

\* reader.read() rejects (the connection fails, or the controller aborts)
readRejected(aborted) ==
    /\ panel.send = "reading"
    /\ panel' = streamFailed(panel, aborted)
    /\ PanelFrame

-----------------------------------------------------------------------------
\* The zustand graph store (useGraphStore)

\* saveToChromeStorage(newState): chrome.storage.local.set({ graphData: state })
\* when chrome.storage exists, nothing otherwise
SavedByStore(newState) ==
    IF chromeAvailable THEN <<newState>> ELSE persisted

\* what a store mutation that calls saveToChromeStorage does to the histories
StoreWrites(op) ==
    /\ lastOp' = op
    /\ lastMerge' = IF chromeAvailable THEN <<>> ELSE lastMerge
    /\ written' = IF chromeAvailable THEN {} ELSE written
    /\ storeOps' = storeOps + 1
    /\ UNCHANGED <<graphDataCache, now, inflight, chromeAvailable, merges,
                   preReset, view, failed, background, panel>>

\* generateId()
generateId == <<"id", nextId>>

\* history of a position update: what it was called with, and the in-memory
\* and persisted graphs it found
PositionCall(op, id, position) ==
    call' = <<[op |-> op, id |-> id, position |-> position, store |-> store,
               persisted |-> persisted]>>

addWebsite(website) ==
    /\ store' = [store EXCEPT !.websites =
                    Append(@, [id |-> generateId, url |-> website.url,
                               title |-> website.title,
                               favicon |-> website.favicon,
                               visitedAt |-> website.visitedAt,
                               lastPosition |-> Undefined])]
    /\ persisted' = SavedByStore(store')
    /\ nextId' = nextId + 1
    /\ UNCHANGED call
    /\ StoreWrites("addWebsite")

updateWebsitePosition(id, position) ==
    /\ store' = [store EXCEPT !.websites =
                    [i \in 1..Len(@) |->
                        IF @[i].id = id
                        THEN [@[i] EXCEPT !.lastPosition = position]
                        ELSE @[i]]]
    /\ persisted' = SavedByStore(store')
    /\ UNCHANGED nextId
    /\ StoreWrites("updateWebsitePosition")

updateKeywordPosition(id, position) ==
    /\ store' = [store EXCEPT !.keywords =
                    [i \in 1..Len(@) |->
                        IF @[i].id = id
                        THEN [@[i] EXCEPT !.position = position]
                        ELSE @[i]]]
    /\ persisted' = SavedByStore(store')
    /\ UNCHANGED nextId
    /\ StoreWrites("updateKeywordPosition")

updateMentionPosition(id, position) ==
    /\ store' = [store EXCEPT !.mentions =
                    [i \in 1..Len(@) |->
                        IF @[i].id = id
                        THEN [@[i] EXCEPT !.position = position]
                        ELSE @[i]]]
    /\ persisted' = SavedByStore(store')
    /\ UNCHANGED nextId
    /\ StoreWrites("updateMentionPosition")

\* chrome.storage.local.get("graphData", ...) then set(result.graphData)
loadFromChromeStorage ==
    /\ store' = IF chromeAvailable /\ persisted # <<>> THEN persisted[1] ELSE store
    /\ lastOp' = "loadFromChromeStorage"
    /\ UNCHANGED <<persisted, graphDataCache, now, nextId, inflight,
                   chromeAvailable, merges, storeOps, lastMerge, written,
                   preReset, view, call, failed, background, panel>>

\* chrome.storage.local.remove("graphData") and, in its callback, set({...empty});
\* without chrome.storage the promise resolves and nothing else happens
resetGraph ==
    /\ IF chromeAvailable
       THEN /\ persisted' = <<>>
            /\ store' = initialGraphData
            /\ preReset' = preReset \cup NodeKeys(GraphOrEmpty(persisted))
            /\ written' = {}
            /\ lastMerge' = <<>>
       ELSE UNCHANGED <<persisted, store, preReset, written, lastMerge>>
    /\ lastOp' = "resetGraph"
    /\ storeOps' = storeOps + 1
    /\ UNCHANGED <<graphDataCache, now, nextId, inflight, chromeAvailable,
                   merges, view, call, failed, background, panel>>

\* an id that matches no node
NoSuchId == <<"id", 0>>

\* addWebsite whose chrome.storage.local.set ends with
\* chrome.runtime.lastError: the store keeps the new state, storage the old
addWebsiteWriteFails(website) ==
    /\ chromeAvailable
    /\ store' = [store EXCEPT !.websites =
                    Append(@, [id |-> generateId, url |-> website.url,
                               title |-> website.title,
                               favicon |-> website.favicon,
                               visitedAt |-> website.visitedAt,
                               lastPosition |-> Undefined])]
    /\ nextId' = nextId + 1
    /\ storeOps' = storeOps + 1
    /\ lastOp' = "addWebsiteWriteFailed"
    /\ UNCHANGED <<persisted, graphDataCache, now, inflight, chromeAvailable,
                   merges, lastMerge, written, preReset, view, call, failed, background, panel>>

\* searchByKeyword(keyword) on the store's state
searchByKeyword(state, keyword) ==
    LET lowercaseKeyword == toLowerCase(keyword)
        matchingKeywords ==
            SelectSeq(state.keywords,
                      LAMBDA k : includes(toLowerCase(k.text), lowercaseKeyword))
        matchingMentions ==
            SelectSeq(state.mentions,
                      LAMBDA m : \/ includes(toLowerCase(m.text), lowercaseKeyword)
                                 \/ includes(toLowerCase(m.context), lowercaseKeyword))
        websiteIds ==
            {k.sourceWebsiteId : k \in Range(matchingKeywords)}
            \cup {m.sourceWebsiteId : m \in Range(matchingMentions)}
        matchingWebsites ==
            SelectSeq(state.websites,
                      LAMBDA w : \/ w.id \in websiteIds
                                 \/ includes(toLowerCase(w.title), lowercaseKeyword)
                                 \/ includes(toLowerCase(w.url), lowercaseKeyword))
    IN [websites |-> matchingWebsites, keywords |-> matchingKeywords,
        mentions |-> matchingMentions]

\* a caller runs searchByKeyword(keyword) and holds its result
SearchByKeyword(keyword) ==
    /\ call' = <<[op |-> "searchByKeyword", keyword |-> keyword,
                  result |-> searchByKeyword(store, keyword)]>>
    /\ lastOp' = "searchByKeyword"
    /\ UNCHANGED <<persisted, graphDataCache, now, nextId, inflight, store,
                   chromeAvailable, merges, storeOps, lastMerge, written,
                   preReset, view, failed, background, panel>>

-----------------------------------------------------------------------------
\* The graph view's steps

\* graphDataCache: null, as clearGraphDataCache writes it, and "active"
CacheNull == [null |-> TRUE]
CacheActive == [active |-> TRUE]

\* background, clearGraphDataCache after a change of the preferences:
\* storage.set({ graphDataCache: null })
ClearGraphDataCache ==
    /\ chromeAvailable
    /\ graphDataCache' = <<CacheNull>>
    /\ UNCHANGED <<persisted, now, nextId, inflight, store, chromeAvailable,
                   merges, storeOps, lastOp, lastMerge, written, preReset,
                   view, call, failed, background, panel>>

\* what no step of the view changes, graphDataCache aside
ViewFrame ==
    UNCHANGED <<persisted, now, nextId, inflight, store, chromeAvailable,
                merges, storeOps, lastOp, lastMerge, written, preReset, call,
                failed, background, panel>>

\* the component mounts: useState(Date.now().toString()), both effects are
\* scheduled, loadPreferences issues its storage.get when chrome.storage exists
ViewMount ==
    /\ ~view.mounted
    /\ view' = [view EXCEPT !.mounted = TRUE, !.cacheKey = now,
                            !.effect = TRUE, !.prefsGet = chromeAvailable,
                            !.step = "mount",
                            !.probe = NoProbe]
    /\ UNCHANGED graphDataCache
    /\ ViewFrame

\* useResizeObserver reports new dimensions; the loadHistory effect depends
\* on dimensions.width and dimensions.height
Resize(dimensions) ==
    /\ view.mounted
    /\ dimensions # view.dimensions
    /\ view' = [view EXCEPT !.dimensions = dimensions, !.effect = TRUE,
                            !.step = "resize",
                            !.probe = NoProbe]
    /\ UNCHANGED graphDataCache
    /\ ViewFrame

\* preferenceListener(changes) with changes.preferences.newValue = newValue
preferenceListener(newValue) ==
    /\ view.mounted
    /\ chromeAvailable
    /\ view' = [view EXCEPT !.preferences = newValue,
                            !.layoutStorage = {},
                            !.cacheKey = now,
                            !.effect = @ \/ newValue # view.preferences
                                         \/ now # view.cacheKey,
                            !.step = "preferenceListener",
                            !.probe = NoProbe]
    /\ UNCHANGED graphDataCache
    /\ ViewFrame

\* loadPreferences, callback of storage.get(["preferences", "graphDataCache"])
\* with result.preferences = stored (<<>> when there is none)
loadPreferences(stored) ==
    /\ view.prefsGet
    /\ LET reset == graphDataCache = <<CacheNull>>
           preferences == IF stored # <<>> THEN stored ELSE view.preferences
           cacheKey == IF reset THEN now ELSE view.cacheKey
       IN /\ view' = [view EXCEPT
                        !.prefsGet = FALSE,
                        !.preferences = preferences,
                        !.layoutStorage = IF reset THEN {} ELSE @,
                        !.cacheKey = cacheKey,
                        !.effect = @ \/ preferences # view.preferences
                                     \/ cacheKey # view.cacheKey,
                        !.step = "loadPreferences",
                        !.probe = NoProbe]
          /\ graphDataCache' = IF reset THEN <<CacheActive>> ELSE graphDataCache
    /\ ViewFrame

\* the loadHistory effect up to its storage.get: setIsLoading(true),
\* setError(null), the cache check, then the request for graphData or, with
\* no chrome.storage, the empty lists
loadHistory ==
    /\ view.mounted
    /\ view.effect
    /\ Len(view.pending) < MaxPendingLoads
    /\ LET v == [view EXCEPT !.effect = FALSE, !.isLoading = TRUE,
                             !.error = FALSE]
       IN view' =
            IF cacheHit(v.layoutStorage, v.cacheKey)
            THEN cachedLoad(v, CHOOSE e \in cachedLayout(v.layoutStorage,
                                                         v.cacheKey) : TRUE)
            ELSE IF chromeAvailable
            THEN [requestGraphData(v) EXCEPT
                    !.step = "get", !.probe = Probe(v, FALSE, TRUE, <<>>)]
            ELSE [emptyLoad(v) EXCEPT
                    !.step = "noStorage", !.probe = Probe(v, FALSE, FALSE, <<>>)]
    /\ UNCHANGED graphDataCache
    /\ ViewFrame

\* the callback of the oldest outstanding storage.get("graphData")
loadHistoryCallback ==
    /\ view.pending # <<>>
    /\ view' = loadedGraphData([view EXCEPT !.pending = Tail(@)],
                               Head(view.pending), persisted)
    /\ UNCHANGED graphDataCache
    /\ ViewFrame

-----------------------------------------------------------------------------
\* PageClassifier.rankBrowsingData

\* allDocs = [...websiteDocs, ...keywordDocs, ...mentionDocs]
allDocs(websites, keywords, mentions) ==
    [i \in 1..Len(websites) |-> [type |-> "website", originalIndex |-> i - 1]]
    \o [i \in 1..Len(keywords) |-> [type |-> "keyword", originalIndex |-> i - 1]]
    \o [i \in 1..Len(mentions) |-> [type |-> "mention", originalIndex |-> i - 1]]

\* a variant of groupResults that passes over an index outside allDocs
RECURSIVE groupResultsSkipping(_, _, _)
groupResultsSkipping(results, docs, acc) ==
    IF results = <<>> \/ acc.threw THEN acc
    ELSE LET docIndex == Head(results).index IN
         IF docIndex \notin 0..(Len(docs) - 1)
         THEN groupResultsSkipping(Tail(results), docs, acc)
         ELSE LET originalDoc == docs[docIndex + 1] IN
              groupResultsSkipping(Tail(results), docs,
                  [acc EXCEPT ![originalDoc.type] =
                      Append(@, originalDoc.originalIndex)])

\* results.forEach(...): the original indexes pushed per type, in the order
\* of the results; allDocs[docIndex] is undefined for an index outside
\* allDocs, and reading its .type throws
RECURSIVE groupResults(_, _, _)
groupResults(results, docs, acc) ==
    IF results = <<>> \/ acc.threw THEN acc
    ELSE LET docIndex == Head(results).index IN
         IF docIndex \notin 0..(Len(docs) - 1)
         THEN [acc EXCEPT !.threw = TRUE]
         ELSE LET originalDoc == docs[docIndex + 1] IN
              groupResults(Tail(results), docs,
                  [acc EXCEPT ![originalDoc.type] =
                      Append(@, originalDoc.originalIndex)])

\* rankedX.length > 0 ? rankedX.map(item => item.document) : X
finalOf(ranked, original) ==
    IF Len(ranked) > 0
    THEN [i \in 1..Len(ranked) |-> original[ranked[i] + 1]]
    ELSE original

\* the body of the try block: <<"return", value>> or <<"throw">>
rankTry(cohereApiKey, websites, keywords, mentions, response) ==
    LET given == [websites |-> websites, keywords |-> keywords,
                  mentions |-> mentions]
        docs == allDocs(websites, keywords, mentions)
    IN IF ~cohereApiKey THEN <<"return", given>>
       ELSE IF Len(docs) = 0 THEN <<"return", given>>
       ELSE IF response.kind = "networkError" THEN <<"throw">>
       ELSE IF ~response.ok THEN <<"return", given>>
       ELSE LET grouped == groupResults(response.results, docs,
                               [website |-> <<>>, keyword |-> <<>>,
                                mention |-> <<>>, threw |-> FALSE])
            IN IF grouped.threw THEN <<"throw">>
               ELSE <<"return",
                      [websites |-> finalOf(grouped.website, websites),
                       keywords |-> finalOf(grouped.keyword, keywords),
                       mentions |-> finalOf(grouped.mention, mentions)]>>

\* rankBrowsingData: the try block, and the catch that returns what was given
rankBrowsingData(cohereApiKey, websites, keywords, mentions, response) ==
    LET tried == rankTry(cohereApiKey, websites, keywords, mentions, response)
    IN IF tried[1] = "throw"
       THEN <<"return", [websites |-> websites, keywords |-> keywords,
                         mentions |-> mentions]>>
       ELSE tried

\* what fetch and response.json() can give: a rejected fetch, a status
\* outside 2xx, or a 2xx body whose results carry any indexes
RankResponses ==
    {[kind |-> "networkError", ok |-> FALSE, results |-> <<>>],
     [kind |-> "http", ok |-> FALSE, results |-> <<>>]}
    \cup {[kind |-> "http", ok |-> TRUE, results |-> r] :
            r \in UNION {[1..n -> [index : -1..MaxRankIndex]] :
                            n \in 0..MaxRankResults}}

RankWebsites == {<<>>, <<[id |-> <<"website", 1>>]>>,
                 <<[id |-> <<"website", 1>>], [id |-> <<"website", 2>>]>>}
RankKeywords == {<<>>, <<[id |-> <<"keyword", 3>>]>>}
RankMentions == {<<>>, <<[id |-> <<"mention", 4>>]>>}

\* a call of rankBrowsingData that has not run yet
RankCalls ==
    {<<[op |-> "rankBrowsingData", cohereApiKey |-> cohereApiKey,
        websites |-> websites, keywords |-> keywords, mentions |-> mentions,
        response |-> response, outcome |-> <<"pending">>]>> :
        cohereApiKey \in BOOLEAN, websites \in RankWebsites,
        keywords \in RankKeywords, mentions \in RankMentions,
        response \in RankResponses}

\* the call runs to its end
RankBrowsingData ==
    /\ call # <<>>
    /\ call[1].op = "rankBrowsingData"
    /\ call[1].outcome = <<"pending">>
    /\ call' = <<[call[1] EXCEPT !.outcome =
                    rankBrowsingData(call[1].cohereApiKey, call[1].websites,
                                     call[1].keywords, call[1].mentions,
                                     call[1].response)]>>
    /\ lastOp' = "rankBrowsingData"
    /\ UNCHANGED <<persisted, graphDataCache, now, nextId, inflight, store,
                   chromeAvailable, merges, storeOps, lastMerge, written,
                   preReset, view, failed, background, panel>>

-----------------------------------------------------------------------------
\* Specifications

Next ==
    \/ \E data \in PageRecords : MergePageData(data)
    \/ Tick
    \/ ResetBrowsingData

Spec == Init /\ [][Next]_vars

\* Merges whose storage reads and writes interleave, and both resets
ConcPayloads ==
    { [keywords |-> <<>>,             mentions |-> <<>>,       title |-> T1],
      [keywords |-> <<kwAbc>>,        mentions |-> <<mReact>>, title |-> T1],
      [keywords |-> <<kwABC, kwXyz>>, mentions |-> <<>>,       title |-> T2] }

ConcRecords == {PageData(u, p) : u \in Urls, p \in ConcPayloads}

NextConc ==
    \/ \E data \in ConcRecords : merges < MaxConcMerges /\ MergeRead(data)
    \/ \E i \in 1..MaxInflight : MergeWrite(i)
    \/ Tick
    \/ ResetBrowsingData
    \/ storeOps < MaxStoreOps /\ resetGraph

SpecConc == Init /\ [][NextConc]_vars

\* Serialized merges next to a graph store that loads the persisted graph and
\* records node positions
StoreRecords ==
    { PageData(U1, [keywords |-> <<>>,       mentions |-> <<>>,       title |-> T1]),
      PageData(U1, [keywords |-> <<kwTest>>, mentions |-> <<>>,       title |-> T2]),
      PageData(U1, [keywords |-> <<kwAbc>>,  mentions |-> <<mReact>>, title |-> T1]),
      PageData(U2, [keywords |-> <<kwABC>>,  mentions |-> <<mreact>>, title |-> T2]) }

NextStore ==
    \/ \E data \in StoreRecords : merges < MaxStoreMerges /\ MergePageData(data)
    \/ Tick
    \/ loadFromChromeStorage
    \/ \E id \in WebsiteIds(store) \cup {NoSuchId}, position \in Positions :
          /\ storeOps < MaxStoreOps
          /\ updateWebsitePosition(id, position)
          /\ UNCHANGED call
    \/ \E id \in KeywordIds(store) \cup {NoSuchId}, position \in Positions :
          /\ storeOps < MaxStoreOps
          /\ updateKeywordPosition(id, position)
          /\ UNCHANGED call
    \/ \E id \in MentionIds(store) \cup {NoSuchId}, position \in Positions :
          /\ storeOps < MaxStoreOps
          /\ updateMentionPosition(id, position)
          /\ UNCHANGED call

SpecStore == Init /\ [][NextStore]_vars

\* The same store with the last position update on record
FrameRecords ==
    { PageData(U1, [keywords |-> <<kwAbc>>, mentions |-> <<mReact>>, title |-> T1]),
      PageData(U2, [keywords |-> <<>>,      mentions |-> <<>>,       title |-> T2]) }

NextFrame ==
    \/ \E data \in FrameRecords : merges < MaxStoreMerges /\ MergePageData(data)
    \/ Tick
    \/ loadFromChromeStorage
    \/ \E id \in WebsiteIds(store) \cup {NoSuchId}, position \in Positions :
          /\ storeOps < MaxStoreOps
          /\ updateWebsitePosition(id, position)
          /\ PositionCall("updateWebsitePosition", id, position)
    \/ \E id \in KeywordIds(store) \cup {NoSuchId}, position \in Positions :
          /\ storeOps < MaxStoreOps
          /\ updateKeywordPosition(id, position)
          /\ PositionCall("updateKeywordPosition", id, position)
    \/ \E id \in MentionIds(store) \cup {NoSuchId}, position \in Positions :
          /\ storeOps < MaxStoreOps
          /\ updateMentionPosition(id, position)
          /\ PositionCall("updateMentionPosition", id, position)

SpecFrame == Init /\ [][NextFrame]_vars

\* Serialized merges next to a graph store that loads the persisted graph and
\* is searched
Queries ==
    { <<"a","b">>, <<"R","E","A">>, <<"s","h","a","d">>, <<"u","1">>, <<"c","1">> }

NextSearch ==
    \/ \E data \in StoreRecords : merges < MaxSearchMerges /\ MergePageData(data)
    \/ Tick
    \/ loadFromChromeStorage
    \/ \E keyword \in Queries : SearchByKeyword(keyword)

SpecSearch == Init /\ [][NextSearch]_vars

\* Merges and store mutations whose storage write can fail, and page records
\* without a url or without a title
FaultRecords ==
    { PageData(U1, [keywords |-> <<kwAbc>>, mentions |-> <<mReact>>, title |-> T1]),
      PageData(U2, [keywords |-> <<>>,      mentions |-> <<>>,       title |-> T2]),
      PageData(U1, [keywords |-> <<kwXyz>>, mentions |-> <<>>,       title |-> <<>>]),
      PageData(<<>>, [keywords |-> <<>>,    mentions |-> <<mVue>>,   title |-> T1]) }

FaultWebsites ==
    {[url |-> u, title |-> T1, favicon |-> Favicon, visitedAt |-> 0] : u \in Urls}

NextFaults ==
    \/ \E data \in FaultRecords : merges < MaxFaultMerges /\ MergePageData(data)
    \/ \E data \in FaultRecords :
          merges < MaxFaultMerges /\ MergePageDataWriteFails(data)
    \/ Tick
    \/ ResetBrowsingData
    \/ \E website \in FaultWebsites : storeOps < MaxFaultOps /\ addWebsite(website)
    \/ \E website \in FaultWebsites :
          storeOps < MaxFaultOps /\ addWebsiteWriteFails(website)

SpecFaults == Init /\ [][NextFaults]_vars

\* Serialized merges of records whose lists repeat a keyword or a mention
ListRecords ==
    { PageData(U1, [keywords |-> <<>>,           mentions |-> <<>>,               title |-> T1]),
      PageData(U1, [keywords |-> <<kwAbc, kwABC>>, mentions |-> <<mReact, mreact>>, title |-> T1]),
      PageData(U1, [keywords |-> <<kwXyz, kwXyz>>, mentions |-> <<mVue>>,           title |-> T2]),
      PageData(U2, [keywords |-> <<kwAbc>>,        mentions |-> <<mReact, mVue>>,   title |-> T2]) }

NextLists ==
    \/ \E data \in ListRecords : merges < MaxListMerges /\ MergePageData(data)
    \/ Tick
    \/ ResetBrowsingData

SpecLists == Init /\ [][NextLists]_vars

\* The background script's two ways of receiving page data, under every
\* setting of the tracking preferences
TrackRecords ==
    { PageData(UrlA, [keywords |-> <<kwAbc>>, mentions |-> <<>>, title |-> T1]),
      PageData(UrlB, [keywords |-> <<>>,      mentions |-> <<>>, title |-> T2]) }

TrackBackgrounds ==
    { [userPreferences |-> [trackedDomains |-> tracked,
                            excludedDomains |-> excluded,
                            enabled |-> enabled,
                            preferences |-> preferences],
       geminiApiKey |-> key,
       requested |-> <<>>,
       response |-> <<>>] :
        tracked \in {<<>>, <<DomainA>>},
        excluded \in {<<Localhost>>, <<Localhost, DomainB>>},
        enabled \in BOOLEAN,
        preferences \in {<<>>, ContentPreferences},
        key \in {<<>>, GeminiApiKey} }

InitTrack ==
    /\ persisted = <<>>
    /\ graphDataCache = <<>>
    /\ now = 0
    /\ nextId = 1
    /\ inflight = <<>>
    /\ store = initialGraphData
    /\ chromeAvailable = TRUE
    /\ merges = 0
    /\ storeOps = 0
    /\ lastOp = "init"
    /\ lastMerge = <<>>
    /\ written = {}
    /\ preReset = {}
    /\ view = initialView
    /\ call = <<>>
    /\ failed = {}
    /\ background \in TrackBackgrounds
    /\ panel = initialPanel

NextTrack ==
    \/ \E data \in TrackRecords, relevant \in BOOLEAN :
          merges < MaxTrackMessages /\ tabsOnUpdated(data, relevant)
    \/ \E data \in TrackRecords, relevant1, relevant2 \in BOOLEAN :
          merges < MaxTrackMessages /\ onMessageSavePageData(data, relevant1, relevant2)
    \/ storageGetCallback
    \/ Tick

SpecTrack == InitTrack /\ [][NextTrack]_vars

\* The conversation panel, with and without an api key
PanelMessages == {<<"h","i">>}
TextChunks == {<<"o","k">>}

InitPanel ==
    /\ persisted = <<>>
    /\ graphDataCache = <<>>
    /\ now = 0
    /\ nextId = 1
    /\ inflight = <<>>
    /\ store = initialGraphData
    /\ chromeAvailable = TRUE
    /\ merges = 0
    /\ storeOps = 0
    /\ lastOp = "init"
    /\ lastMerge = <<>>
    /\ written = {}
    /\ preReset = {}
    /\ view = initialView
    /\ call = <<>>
    /\ failed = {}
    /\ background = configuredBackground
    /\ \E key \in {<<>>, GeminiApiKey} :
          panel = [initialPanel EXCEPT !.geminiApiKey = key]

NextPanel ==
    \/ \E message \in PanelMessages : handleSendMessage(message)
    \/ contextLoaded
    \/ contextThrows
    \/ \E ok, hasReader \in BOOLEAN : fetchResolved(ok, hasReader)
    \/ \E aborted \in BOOLEAN : fetchRejected(aborted)
    \/ \E textChunk \in TextChunks : readChunk(textChunk)
    \/ readDone
    \/ \E aborted \in BOOLEAN : readRejected(aborted)
    \/ Tick

SpecPanel == InitPanel /\ [][NextPanel]_vars

\* Calls of rankBrowsingData over candidate lists and rerank responses
InitRank ==
    /\ persisted = <<>>
    /\ graphDataCache = <<>>
    /\ now = 0
    /\ nextId = 1
    /\ inflight = <<>>
    /\ store = initialGraphData
    /\ chromeAvailable = TRUE
    /\ merges = 0
    /\ storeOps = 0
    /\ lastOp = "init"
    /\ lastMerge = <<>>
    /\ written = {}
    /\ preReset = {}
    /\ view = initialView
    /\ call \in RankCalls
    /\ failed = {}
    /\ background = configuredBackground
    /\ panel = initialPanel

NextRank == RankBrowsingData

SpecRank == InitRank /\ [][NextRank]_vars

\* Calls of generateDeterministicPosition over seeds and dimensions
InitPosition ==
    /\ persisted = <<>>
    /\ graphDataCache = <<>>
    /\ now = 0
    /\ nextId = 1
    /\ inflight = <<>>
    /\ store = initialGraphData
    /\ chromeAvailable = TRUE
    /\ merges = 0
    /\ storeOps = 0
    /\ lastOp = "init"
    /\ lastMerge = <<>>
    /\ written = {}
    /\ preReset = {}
    /\ view = initialView
    /\ call \in PositionSeedCalls
    /\ failed = {}
    /\ background = configuredBackground
    /\ panel = initialPanel

NextPosition == GenerateDeterministicPosition

SpecPosition == InitPosition /\ [][NextPosition]_vars

\* The graph view next to serialized merges and resets
ViewRecords ==
    { PageData(U1, [keywords |-> <<kwAbc>>, mentions |-> <<mReact>>, title |-> T1]),
      PageData(U2, [keywords |-> <<>>,      mentions |-> <<>>,       title |-> T2]) }

ViewDimensions == {<<0, 0>>, <<800, 600>>}

PreferenceValues == {<<"a","i">>}

InitView ==
    /\ persisted = <<>>
    /\ graphDataCache = <<>>
    /\ now = 0
    /\ nextId = 1
    /\ inflight = <<>>
    /\ store = initialGraphData
    /\ chromeAvailable \in BOOLEAN
    /\ merges = 0
    /\ storeOps = 0
    /\ lastOp = "init"
    /\ lastMerge = <<>>
    /\ written = {}
    /\ preReset = {}
    /\ view = initialView
    /\ call = <<>>
    /\ failed = {}
    /\ background = configuredBackground
    /\ panel = initialPanel

NextView ==
    \/ \E data \in ViewRecords : merges < MaxViewMerges /\ MergePageData(data)
    \/ Tick
    \/ ResetBrowsingData
    \/ ClearGraphDataCache
    \/ ViewMount
    \/ \E dimensions \in ViewDimensions : Resize(dimensions)
    \/ \E newValue \in PreferenceValues : preferenceListener(newValue)
    \/ \E stored \in PreferenceValues \cup {<<>>} : loadPreferences(stored)
    \/ loadHistory
    \/ loadHistoryCallback

SpecView == InitView /\ [][NextView]_vars

\* The graph view over graphs where a merge removed a keyword that another
\* website has an edge to
LayoutRecords ==
    { PageData(U1, [keywords |-> <<>>,       mentions |-> <<>>, title |-> T1]),
      PageData(U2, [keywords |-> <<kwTest>>, mentions |-> <<>>, title |-> T2]),
      PageData(U1, [keywords |-> <<kwAbc>>,  mentions |-> <<>>, title |-> T1]) }

NextLayout ==
    \/ \E data \in LayoutRecords : merges < MaxLayoutMerges /\ MergePageData(data)
    \/ Tick
    \/ ViewMount
    \/ \E newValue \in PreferenceValues : preferenceListener(newValue)
    \/ \E stored \in PreferenceValues \cup {<<>>} : loadPreferences(stored)
    \/ loadHistory
    \/ loadHistoryCallback

SpecLayout == Init /\ [][NextLayout]_vars

\* An open graph view next to merges. The steps the view has scheduled are
\* taken: React runs a pending effect, and chrome.storage delivers the
\* callbacks of the reads it was asked for. Merges and resizes are the
\* environment's and may never happen.
NextRefresh ==
    \/ \E data \in ViewRecords : merges < MaxRefreshMerges /\ MergePageData(data)
    \/ ViewMount
    \/ \E dimensions \in ViewDimensions : Resize(dimensions)
    \/ \E stored \in PreferenceValues \cup {<<>>} : loadPreferences(stored)
    \/ loadHistory
    \/ loadHistoryCallback

FairView ==
    /\ WF_vars(loadHistory)
    /\ WF_vars(loadHistoryCallback)
    /\ WF_vars(\E stored \in PreferenceValues \cup {<<>>} : loadPreferences(stored))

SpecRefresh == Init /\ [][NextRefresh]_vars /\ FairView

\* The store alone, inside and outside an extension context
InitEnv ==
    /\ persisted = <<>>
    /\ graphDataCache = <<>>
    /\ now = 0
    /\ nextId = 1
    /\ inflight = <<>>
    /\ store = initialGraphData
    /\ chromeAvailable \in BOOLEAN
    /\ merges = 0
    /\ storeOps = 0
    /\ lastOp = "init"
    /\ lastMerge = <<>>
    /\ written = {}
    /\ preReset = {}
    /\ view = initialView
    /\ call = <<>>
    /\ failed = {}
    /\ background = configuredBackground
    /\ panel = initialPanel

NewWebsites ==
    {[url |-> u, title |-> t, favicon |-> Favicon, visitedAt |-> 0] :
        u \in Urls, t \in {T1, T2}}

NextEnv ==
    \/ \E website \in NewWebsites : storeOps < MaxEnvOps /\ addWebsite(website)
    \/ \E id \in WebsiteIds(store) \cup {NoSuchId}, position \in Positions :
          /\ storeOps < MaxEnvOps
          /\ updateWebsitePosition(id, position)
          /\ UNCHANGED call
    \/ storeOps < MaxEnvOps /\ resetGraph
    \/ loadFromChromeStorage

SpecEnv == InitEnv /\ [][NextEnv]_vars

-----------------------------------------------------------------------------
\* C1: merging the same url twice in a row with identical keywords (the empty
\* list and all-short lists included) leaves exactly one WebsiteNode for the
\* url and the same set of KeywordNode ids as after the first merge.
C1_IdempotentMerge ==
    (/\ TwoMerges
     /\ PrevData.url = LastData.url
     /\ PrevData.keywords = LastData.keywords)
    => /\ Cardinality(WebsitesWithUrl(G, LastData.url)) = 1
       /\ KeywordIds(G) = KeywordIds(LastBefore)

\* C2: two serialized merges whose keyword lists hold strings equal up to
\* letter case and surrounding whitespace (strings the merge accepts, i.e. of
\* three or more characters) leave exactly one KeywordNode for the normalized
\* text, and both merged websites have an edge to it.
C2_GlobalKeywordUniqueness ==
    TwoMerges =>
      \A s \in AcceptedKeywords(PrevData), t \in AcceptedKeywords(LastData) :
        toLowerCase(trim(s)) = toLowerCase(trim(t)) =>
          LET nodes == {i \in 1..Len(G.keywords) :
                          toLowerCase(trim(G.keywords[i].text)) = toLowerCase(trim(t))}
          IN /\ Cardinality(nodes) = 1
             /\ \A url \in {PrevData.url, LastData.url} :
                  \E id \in IdsOfUrl(G, url), i \in nodes :
                     \E e \in KeywordEdgesFrom(G, id) : e.target = G.keywords[i].id

\* C4: after any serialized sequence of merges from the empty graph, every
\* edge of the persisted graph starts at an existing WebsiteNode and ends at an
\* existing KeywordNode (keyword edges) or MentionNode (mention edges).
C4_NoDanglingEdges ==
    /\ \A e \in Range(G.websiteToKeywordEdges) :
          e.source \in WebsiteIds(G) /\ e.target \in KeywordIds(G)
    /\ \A e \in Range(G.websiteToMentionEdges) :
          e.source \in WebsiteIds(G) /\ e.target \in MentionIds(G)

\* C6: after a merge for website W the edges leaving W are exactly the edges
\* to the keywords and mentions accepted from that merge's record, and none of
\* them is an edge that an earlier merge created.
C6_EdgeReplacement ==
    lastMerge # <<>> =>
      \A id \in IdsOfUrl(G, LastData.url) :
        /\ {e.target : e \in KeywordEdgesFrom(G, id)}
             = {G.keywords[i].id :
                  i \in UNION {KeywordsWithText(G, t) : t \in AcceptedKeywords(LastData)}}
        /\ \A t \in AcceptedKeywords(LastData) : KeywordsWithText(G, t) # {}
        /\ {e.target : e \in MentionEdgesFrom(G, id)}
             = {m.id : m \in {x \in Range(G.mentions) : x.sourceWebsiteId = id}}
        /\ {[text |-> m.text, context |-> m.context] :
              m \in {x \in Range(G.mentions) : x.sourceWebsiteId = id}}
             = AcceptedMentions(LastData)
        /\ \A e \in KeywordEdgesFrom(G, id) \cup MentionEdgesFrom(G, id) :
             e.id \notin {x.id : x \in Range(LastBefore.websiteToKeywordEdges)
                                    \cup Range(LastBefore.websiteToMentionEdges)}

\* C3: once two merges that were in flight together have both written, the
\* persisted graph holds a WebsiteNode for each of their urls (no merge written
\* since the last reset is lost).
C3_ConcurrentMergesLoseNothing ==
    inflight = <<>> => \A url \in written : WebsitesWithUrl(G, url) # {}

\* C5: in every persisted graph reachable by merges and resets, interleaved
\* ones included, no two KeywordNodes have texts equal up to letter case.
C5_KeywordTextUnique ==
    \A i, j \in 1..Len(G.keywords) :
        i # j => toLowerCase(G.keywords[i].text) # toLowerCase(G.keywords[j].text)

\* a merge that wrote over a graph it had not read found its keyword, in
\* another letter case, in the graph it had read
C5_Witness ==
    /\ lastMerge # <<>>
    /\ lastMerge[1].stale
    /\ \E t \in AcceptedKeywords(LastData), k \in Range(LastBefore.keywords) :
          k.text # t /\ toLowerCase(k.text) = toLowerCase(t)
    /\ KeywordsWithText(G, kwAbc) # {}

\* C7: a KeywordNode with a stored position p keeps position p through a merge
\* (for its own or another website) whose keyword list holds its text in any
\* letter case.
C7_KeywordPositionPreserved ==
    lastMerge # <<>> =>
      \A k \in Range(LastBefore.keywords) :
        (/\ k.position # Undefined
         /\ \E t \in Range(LastData.keywords) : toLowerCase(t) = toLowerCase(k.text))
        => /\ KeywordsWithText(G, k.text) # {}
           /\ \A i \in KeywordsWithText(G, k.text) : G.keywords[i].position = k.position

\* the merged website owned a positioned keyword (so the merge removed and
\* re-created it) and the record emitted its text in another letter case
C7_Witness ==
    /\ lastMerge # <<>>
    /\ \E k \in Range(LastBefore.keywords) :
          /\ k.position # Undefined
          /\ k.sourceWebsiteId \in IdsOfUrl(LastBefore, LastData.url)
          /\ \E t \in Range(LastData.keywords) :
                t # k.text /\ toLowerCase(t) = toLowerCase(k.text)

\* C8: with serialized merges and no reset there is at most one WebsiteNode
\* per url, and a merge of a url already in the graph keeps that node's id, url
\* and lastPosition (title, favicon and visitedAt are what it may change).
C8_WebsiteUpsert ==
    /\ \A i, j \in 1..Len(G.websites) :
          G.websites[i].url = G.websites[j].url => i = j
    /\ lastMerge # <<>> =>
         /\ Len(G.websites) >= Len(LastBefore.websites)
         /\ \A i \in 1..Len(LastBefore.websites) :
               /\ G.websites[i].id = LastBefore.websites[i].id
               /\ G.websites[i].url = LastBefore.websites[i].url
               /\ G.websites[i].lastPosition = LastBefore.websites[i].lastPosition
               /\ LastBefore.websites[i].url # LastData.url
                    => G.websites[i] = LastBefore.websites[i]
         /\ Cardinality(WebsitesWithUrl(G, LastData.url)) = 1

\* a website with a stored lastPosition was merged again with another title at
\* a later time
C8_Witness ==
    /\ lastMerge # <<>>
    /\ \E i \in WebsitesWithUrl(LastBefore, LastData.url) :
          /\ LastBefore.websites[i].lastPosition # Undefined
          /\ LastBefore.websites[i].title # LastData.title
          /\ LastBefore.websites[i].visitedAt # G.websites[i].visitedAt
          /\ G.websites[i].title = LastData.title

\* C9: once a reset has completed, no node or edge that was persisted before
\* it is persisted again.
C9_ResetIrreversible == NodeKeys(G) \cap preReset = {}

\* C10: after resetGraph() resolves, in every environment, the store's
\* in-memory graph is empty and the persisted graphData has no nodes or edges.
C10_ResetClears ==
    lastOp = "resetGraph" => store = initialGraphData /\ NodeKeys(G) = {}

-----------------------------------------------------------------------------
\* C11: updateWebsitePosition, updateKeywordPosition and updateMentionPosition
\* called with an id that matches a node set only that node's position and
\* change no other node and no edge; called with an id that matches no node
\* they change neither the in-memory graph nor the persisted graphData.
PositionField(op) ==
    IF op = "updateWebsitePosition" THEN "lastPosition" ELSE "position"

NodesOf(op, g) ==
    CASE op = "updateWebsitePosition" -> g.websites
      [] op = "updateKeywordPosition" -> g.keywords
      [] op = "updateMentionPosition" -> g.mentions

OnlyPositionOf(op, id, position, before, after) ==
    /\ Len(NodesOf(op, after)) = Len(NodesOf(op, before))
    /\ \A i \in 1..Len(NodesOf(op, before)) :
          NodesOf(op, after)[i] =
             IF NodesOf(op, before)[i].id = id
             THEN [NodesOf(op, before)[i] EXCEPT ![PositionField(op)] = position]
             ELSE NodesOf(op, before)[i]
    /\ \A other \in {"updateWebsitePosition", "updateKeywordPosition",
                      "updateMentionPosition"} \ {op} :
          NodesOf(other, after) = NodesOf(other, before)
    /\ after.websiteToKeywordEdges = before.websiteToKeywordEdges
    /\ after.websiteToMentionEdges = before.websiteToMentionEdges

C11_PositionUpdateFrame ==
    (call # <<>> /\ lastOp = call[1].op) =>
        LET c == call[1] IN
        IF \E i \in 1..Len(NodesOf(c.op, c.store)) : NodesOf(c.op, c.store)[i].id = c.id
        THEN OnlyPositionOf(c.op, c.id, c.position, c.store, store)
        ELSE store = c.store /\ G = GraphOrEmpty(c.persisted)

-----------------------------------------------------------------------------
\* C12: on a graph built by merges, searchByKeyword(q) returns every website
\* that has a keyword or a mention whose text (or, for a mention, context)
\* contains q case-insensitively, and every website whose title or url
\* contains q.
HasKeywordContaining(g, w, q) ==
    \E e \in KeywordEdgesFrom(g, w.id) :
        \E k \in Range(g.keywords) :
            k.id = e.target /\ includes(toLowerCase(k.text), toLowerCase(q))

HasMentionContaining(g, w, q) ==
    \E e \in MentionEdgesFrom(g, w.id) :
        \E m \in Range(g.mentions) :
            /\ m.id = e.target
            /\ \/ includes(toLowerCase(m.text), toLowerCase(q))
               \/ includes(toLowerCase(m.context), toLowerCase(q))

C12_SearchByOwnership ==
    (call # <<>> /\ lastOp = "searchByKeyword") =>
        LET q == call[1].keyword IN
        \A w \in Range(store.websites) :
            (\/ HasKeywordContaining(store, w, q)
             \/ HasMentionContaining(store, w, q)
             \/ includes(toLowerCase(w.title), toLowerCase(q))
             \/ includes(toLowerCase(w.url), toLowerCase(q)))
            => w \in Range(call[1].result.websites)

-----------------------------------------------------------------------------
\* C13: when the durable write of graphData fails during a merge or a store
\* mutation, the changes of that operation are contained in the state that
\* the next successful write persists.
C13_FailedWriteReconciled ==
    /\ lastOp = "merge" => \A url \in failed : IdsOfUrl(G, url) # {}
    /\ lastOp = "addWebsite" => persisted = <<store>>

\* C14: a merge of a record without a url or without a title changes
\* nothing: the persisted graph after it equals the one before it.
C14_MalformedRecordRejected ==
    (lastOp = "merge" /\ lastMerge # <<>>
        /\ (LastData.url = <<>> \/ LastData.title = <<>>))
    => G = LastBefore

-----------------------------------------------------------------------------
\* C15: rankBrowsingData never throws, and when the rerank fails (the fetch
\* is rejected, the status is not 2xx, or a result index lies outside the
\* candidate list) it returns the websites, keywords and mentions it was
\* given, in their original order.
RerankFailed(c) ==
    \/ c.response.kind = "networkError"
    \/ ~c.response.ok
    \/ \E i \in 1..Len(c.response.results) :
          c.response.results[i].index
              \notin 0..(Len(c.websites) + Len(c.keywords) + Len(c.mentions) - 1)

C15_RerankFailureIsIdentity ==
    (call # <<>> /\ lastOp = "rankBrowsingData") =>
        LET c == call[1] IN
        /\ c.outcome[1] = "return"
        /\ RerankFailed(c) =>
              c.outcome[2] = [websites |-> c.websites, keywords |-> c.keywords,
                              mentions |-> c.mentions]

\* a rerank that answered 2xx with a valid index first and an index outside
\* the candidates second, for two websites and a key
C15_Witness ==
    /\ call # <<>> /\ lastOp = "rankBrowsingData"
    /\ call[1].cohereApiKey
    /\ Len(call[1].websites) = 2
    /\ call[1].response.ok
    /\ Len(call[1].response.results) = 2
    /\ call[1].response.results[1].index = 1
    /\ call[1].response.results[2].index
          = Len(call[1].websites) + Len(call[1].keywords) + Len(call[1].mentions)

-----------------------------------------------------------------------------
\* C18: for every seed "<kind>-<id>-<axis>" and every viewport dimension d
\* the view can pass, from the initial 0 upward, the result of
\* generateDeterministicPosition(seed, d) is a number in [0.1 * d, 0.9 * d].
C18_PositionInRange ==
    (call # <<>> /\ lastOp = "generateDeterministicPosition") =>
        LET result == call[1].result[1]
            d == call[1].maxValue
        IN /\ ~result.nan
           /\ d <= result.tenths
           /\ result.tenths <= 9 * d

-----------------------------------------------------------------------------
\* C16: a layout load never returns a cached layout that was computed from
\* a graph other than the persisted one: after the persisted graph content
\* changed, the load's cache key has no earlier layout cached under it.
C16_NoStaleLayout ==
    view.step = "hit" =>
        \A e \in cachedLayout(view.layoutStorage, view.cacheKey) :
            e.snapshot = GraphOrEmpty(view.probe.persisted)

\* C17: when the layout cache holds an entry for the current cache key, the
\* load returns that entry's node and edge arrays, reads no graphData from
\* storage, runs no simulation, and leaves the cache as it was.
C17_CacheShortCircuit ==
    /\ \A e \in view.layoutStorage : Len(e.nodes) > 0
    /\ view.step = "hit" =>
        (/\ \E e \in cachedLayout(view.probe.layoutStorage, view.cacheKey) :
               view.nodes = e.nodes /\ view.edges = e.edges
         /\ ~view.probe.readStorage
         /\ ~view.probe.ranSimulation
         /\ view.pending = view.probe.pending
         /\ view.layoutStorage = view.probe.layoutStorage)

\* a load answered from the cache while the persisted graph had changed
C17_Witness ==
    /\ view.step = "hit"
    /\ Len(view.nodes) > 0
    /\ \E e \in cachedLayout(view.layoutStorage, view.cacheKey) :
          e.snapshot # GraphOrEmpty(view.probe.persisted)

\* C19: for a snapshot with at least one node the layout output holds
\* exactly one positioned node for every website, keyword and mention node
\* of the snapshot and no other, and its edges are the snapshot's edges with
\* the same id, source and target.
SnapshotEdges(g) ==
    {[id |-> e.id, source |-> e.source, target |-> e.target] :
        e \in Range(g.websiteToKeywordEdges) \cup Range(g.websiteToMentionEdges)}

C19_LayoutCoversSnapshot ==
    view.step = "computed" =>
        LET g == view.probe.snapshot[1]
            ids == WebsiteIds(g) \cup KeywordIds(g) \cup MentionIds(g)
        IN /\ \A id \in ids :
                Cardinality({i \in 1..Len(view.nodes) : view.nodes[i].id = id}) = 1
           /\ \A i \in 1..Len(view.nodes) : view.nodes[i].id \in ids
           /\ Range(view.edges) = SnapshotEdges(g)
           /\ Len(view.edges) =
                 Len(g.websiteToKeywordEdges) + Len(g.websiteToMentionEdges)

\* C20: when the snapshot a load reads has zero nodes, the load yields empty
\* node and edge lists, runs no simulation and adds no cache entry.
ZeroNodes(g) == Len(g.websites) + Len(g.keywords) + Len(g.mentions) = 0

-----------------------------------------------------------------------------
\* C21: after any merge, whatever list of mentions the record carries, no two
\* MentionNodes of the persisted graph have the same sourceWebsiteId and texts
\* equal up to letter case.
C21_MentionIdentity ==
    \A i, j \in 1..Len(G.mentions) :
        (/\ G.mentions[i].sourceWebsiteId = G.mentions[j].sourceWebsiteId
         /\ toLowerCase(G.mentions[i].text) = toLowerCase(G.mentions[j].text))
        => i = j

\* C27: after any serialized sequence of merges and resets, every MentionNode
\* is the target of exactly one website-to-mention edge, whose source is the
\* mention's sourceWebsiteId, an existing website, and every website-to-mention
\* edge targets an existing MentionNode.
C27_MentionEdgeCorrespondence ==
    /\ \A m \in Range(G.mentions) :
          LET into == {i \in 1..Len(G.websiteToMentionEdges) :
                         G.websiteToMentionEdges[i].target = m.id}
          IN /\ Cardinality(into) = 1
             /\ \A i \in into : G.websiteToMentionEdges[i].source = m.sourceWebsiteId
             /\ m.sourceWebsiteId \in WebsiteIds(G)
    /\ \A e \in Range(G.websiteToMentionEdges) : e.target \in MentionIds(G)

\* a website that had mentions was merged again with other mentions, next to
\* another website that has mentions of its own
C27_Witness ==
    /\ lastMerge # <<>>
    /\ \E id \in IdsOfUrl(LastBefore, LastData.url) :
          /\ MentionEdgesFrom(LastBefore, id) # {}
          /\ MentionEdgesFrom(G, id) # {}
          /\ {e.id : e \in MentionEdgesFrom(LastBefore, id)}
                \cap {e.id : e \in MentionEdgesFrom(G, id)} = {}
          /\ \E m \in Range(G.mentions) : m.sourceWebsiteId # id

\* C28: after any merge, whatever keyword list the record carries, the
\* persisted graph has at most one website-to-keyword edge per (source, target)
\* pair.
C28_NoDuplicateKeywordEdges ==
    \A i, j \in 1..Len(G.websiteToKeywordEdges) :
        (/\ G.websiteToKeywordEdges[i].source = G.websiteToKeywordEdges[j].source
         /\ G.websiteToKeywordEdges[i].target = G.websiteToKeywordEdges[j].target)
        => i = j

\* C29: a serialized merge for website W leaves unchanged every other
\* WebsiteNode, every MentionNode of another website, every KeywordNode that was
\* in the graph and whose text the record does not emit, and every edge whose
\* source is not W.
C29_MergeFrame ==
    lastMerge # <<>> =>
      LET W == IdsOfUrl(G, LastData.url)
      IN /\ \A w \in Range(LastBefore.websites) :
               w.url # LastData.url => w \in Range(G.websites)
         /\ \A m \in Range(LastBefore.mentions) :
               m.sourceWebsiteId \notin W => m \in Range(G.mentions)
         /\ \A k \in Range(LastBefore.keywords) :
               (\A t \in AcceptedKeywords(LastData) :
                    toLowerCase(t) # toLowerCase(k.text))
               => k \in Range(G.keywords)
         /\ \A e \in Range(LastBefore.websiteToKeywordEdges) :
               e.source \notin W => e \in Range(G.websiteToKeywordEdges)
         /\ \A e \in Range(LastBefore.websiteToMentionEdges) :
               e.source \notin W => e \in Range(G.websiteToMentionEdges)
         /\ \A e \in Range(G.websiteToKeywordEdges)
                      \cup Range(G.websiteToMentionEdges) :
               e.source \notin W =>
                 e \in Range(LastBefore.websiteToKeywordEdges)
                         \cup Range(LastBefore.websiteToMentionEdges)

\* C22: the layout cache holds no entry under a key other than the current
\* cacheKey. The key changes only where a change of the preferences is
\* observed (preferenceListener, and loadPreferences on graphDataCache ===
\* null), so an entry under another key is an entry created under an earlier
\* key that is in the cache after the change, a layout computation that
\* started before the change and completed after it included.
C22_PreferenceChangeInvalidates ==
    \A e \in view.layoutStorage : e.key = view.cacheKey

\* C24: when laying out the graph throws (an edge of the graph names a node
\* that is not in the node list), the callback that ran it leaves the displayed
\* nodes and edges as they were, ends the loading state and writes nothing to
\* the layout cache.
C24_FailedLayoutKeepsView ==
    [][(view'.step = "failed" /\ view'.pending # view.pending)
        => /\ view'.nodes = view.nodes
           /\ view'.edges = view.edges
           /\ ~view'.isLoading
           /\ view'.layoutStorage = view.layoutStorage]_vars

\* a layout failed while the view was displaying the nodes of an earlier one
C24_Witness ==
    /\ view.step = "failed"
    /\ view.nodes # <<>>
    /\ ~view.isLoading
    /\ \E e \in Range(G.websiteToKeywordEdges) : e.target \notin KeywordIds(G)

\* C23: once a merge has written a website (and graphDataCache after it)
\* while the graph view is open, the view eventually displays a node for that
\* website.
Displayed(url) ==
    \E id \in IdsOfUrl(G, url) :
        \E i \in 1..Len(view.nodes) : view.nodes[i].id = id

C23_MergeTriggersRefresh ==
    \A url \in Urls :
        (view.mounted /\ lastOp = "merge" /\ url \in written) ~> Displayed(url)

\* C25: no page is merged into the graph whose url the tracking preferences
\* rule out (tracking disabled, an excluded pattern matches, or a non-empty
\* trackedDomains list matches nothing), whether its data came through the
\* tab-update request or through a savePageData message.
C25_TrackingPreferencesHonoured ==
    \A url \in written : shouldTrackUrl(background.userPreferences, url)

\* C26: when the background has answered a savePageData message with
\* success: true, the persisted graph holds a WebsiteNode for the url of that
\* message's page.
C26_SavedMeansSaved ==
    (/\ lastOp = "savePageData"
     /\ background.response # <<>>
     /\ background.response[1].success)
    => WebsitesWithUrl(G, background.response[1].url) # {}

\* C30: once the send that created it has finished (isLoading is false
\* again), no message of the conversation is in the streaming state, also
\* when the stream was aborted or failed after the message was created.
C30_StreamingEnds ==
    ~panel.isLoading =>
        \A i \in 1..Len(panel.messages) : ~panel.messages[i].isStreaming

====
